---- MODULE Spec2Model ----
(***************************************************************************)
(* The dual-socket session relay of src/src/lib/audio.ts (lines 205-511):  *)
(* a WebSocket server that accepts client connections, opens one upstream  *)
(* connection per session.start and translates messages between the two.   *)
(*                                                                         *)
(* The relay is single-threaded and event-driven: every action below is    *)
(* one callback of the event loop, run to completion.                      *)
(***************************************************************************)
EXTENDS Integers, Sequences, FiniteSets, TLC

(***************************************************************************)
(* Bounds of the exploration.                                              *)
(***************************************************************************)
MaxClients == 2    \* client connections accepted
MaxLoad == 5       \* client connections accepted, upstream connections
                   \* created and frames received (from clients and from
                   \* upstream), all together

Clients == 1..MaxClients
SessionIds == 1..MaxClients      \* values generateSessionId can return
NULL == 0                        \* the null upstream handle

(***************************************************************************)
(* Client -> relay vocabulary (ClientMessage, unnamed/part_001:96-99).     *)
(* A SessionConfig carries voice, prompt and agentSpeaksFirst; the two     *)
(* configurations cover set/unset voice, empty/non-empty prompt and both   *)
(* values of the flag.                                                     *)
(***************************************************************************)
NullConfig == [null |-> TRUE]
Configs ==
    { [voice |-> "shimmer", prompt |-> "Be brief.", agentSpeaksFirst |-> FALSE],
      [voice |-> "", prompt |-> "", agentSpeaksFirst |-> TRUE] }

ClientMessages ==
    { [type |-> "session.start", config |-> cfg] : cfg \in Configs }
    \cup { [type |-> "audio.input", audio |-> "AAAA"] }
    \cup { [type |-> "session.end"] }

\* Raw frames on the client socket: text that is JSON, or text that is not.
ClientData ==
    { [wellFormed |-> TRUE, value |-> m] : m \in ClientMessages }
    \cup { [wellFormed |-> FALSE] }

\* JSON.parse: the value, or a SyntaxError.
JSONparse(data) ==
    IF data.wellFormed THEN [threw |-> FALSE, value |-> data.value]
                       ELSE [threw |-> TRUE]

VARIABLES
    apiKey,        \* process.env.OPENAI_API_KEY is set
    clientWs,      \* readyState of each client transport ("NONE" before accept)
    sessionId,     \* session.sessionId of each accepted connection
    sessions,      \* the registry: sessionId -> session (client index)
    config,        \* session.config
    openaiWs,      \* session.openaiWs: NULL or the index of a connection
    conns,         \* every upstream WebSocket ever created, in creation order
    upstreamSent,  \* per upstream connection: the instructions sent on it
    toClient,      \* per client: the messages sent to it (with their origin)
    nRecv,         \* per client: the number of client frames processed
    uncaught       \* an exception escaped a callback

vars == <<apiKey, clientWs, sessionId, sessions, config, openaiWs, conns,
          upstreamSent, toClient, nRecv, uncaught>>

Upstreams == 1..Len(conns)

\* The exploration budget spent so far.
RECURSIVE SumOver(_, _)
SumOver(f, S) ==
    IF S = {} THEN 0
    ELSE LET x == CHOOSE y \in S : TRUE IN f[x] + SumOver(f, S \ {x})

Load ==
    Cardinality({c \in Clients : clientWs[c] # "NONE"})
    + Len(conns)
    + SumOver(nRecv, Clients)
    + SumOver([u \in Upstreams |-> conns[u].nEvents], Upstreams)

(***************************************************************************)
(* generateSessionId (226-228): `session_${Date.now()}_${random suffix}`.  *)
(* The identifier is an opaque token made of the clock and nine random     *)
(* base-36 digits.  The model takes the tokens of different connections to *)
(* be different, and, the tokens being interchangeable and the clock       *)
(* prefix non-decreasing, issues them in increasing order.                 *)
(***************************************************************************)
Issued == { sessionId[c] : c \in { d \in Clients : clientWs[d] # "NONE" } }
generateSessionId ==
    { id \in SessionIds \ Issued : \A k \in SessionIds \ Issued : id <= k }

(***************************************************************************)
(* sendToClient (230-234): send only on an OPEN client transport.          *)
(* An entry of the log is the message plus its origin: the callback that   *)
(* sent it, the upstream connection whose event it handles (0 if none) and *)
(* the number of the client request that caused it (0 if none).     *)
(***************************************************************************)
Entry(message, by, conn, req) ==
    [msg |-> message, by |-> by, conn |-> conn, req |-> req]

\* a send that puts the message before those already sent
sendToClientFirst(readyState, log, entry) ==
    IF readyState = "OPEN" THEN << entry >> \o log ELSE log

\* a send without the readyState test
sendToClientUnguarded(readyState, log, entry) == Append(log, entry)

sendToClient(readyState, log, entry) ==
    IF readyState = "OPEN" THEN Append(log, entry) ELSE log

Init ==
    /\ apiKey \in BOOLEAN
    /\ clientWs = [c \in Clients |-> "NONE"]
    /\ sessionId = [c \in Clients |-> NULL]
    /\ sessions = << >>
    /\ config = [c \in Clients |-> NullConfig]
    /\ openaiWs = [c \in Clients |-> NULL]
    /\ conns = << >>
    /\ upstreamSent = << >>
    /\ toClient = [c \in Clients |-> << >>]
    /\ nRecv = [c \in Clients |-> 0]
    /\ uncaught = FALSE

(***************************************************************************)
(* wss.on('connection') (471-485): a new session is built, registered and  *)
(* told its identifier.  Connections are accepted in index order.          *)
(***************************************************************************)
\* a registration that replaces the whole registry
RegistryReset(id, c) == [k \in {id} |-> c]

\* sessions.set(sessionId, session) (482)
RegistrySet(id, c) ==
    [k \in (DOMAIN sessions) \cup {id} |-> IF k = id THEN c ELSE sessions[k]]

\* a connection callback that registers the session and tells the client
\* nothing
AcceptUnannounced(c, id) ==
    /\ clientWs[c] = "NONE"
    /\ \A d \in Clients : d < c => clientWs[d] # "NONE"
    /\ Load < MaxLoad
    /\ clientWs' = [clientWs EXCEPT ![c] = "OPEN"]
    /\ sessionId' = [sessionId EXCEPT ![c] = id]
    /\ config' = [config EXCEPT ![c] = NullConfig]
    /\ openaiWs' = [openaiWs EXCEPT ![c] = NULL]
    /\ sessions' = RegistrySet(id, c)
    /\ UNCHANGED <<apiKey, conns, upstreamSent, toClient, nRecv, uncaught>>

\* the callback, for the identifier id that generateSessionId returned
Accept(c, id) ==
    /\ clientWs[c] = "NONE"
    /\ \A d \in Clients : d < c => clientWs[d] # "NONE"
    /\ Load < MaxLoad
    /\ clientWs' = [clientWs EXCEPT ![c] = "OPEN"]
    /\ sessionId' = [sessionId EXCEPT ![c] = id]
    /\ config' = [config EXCEPT ![c] = NullConfig]
    /\ openaiWs' = [openaiWs EXCEPT ![c] = NULL]
    /\ sessions' = RegistrySet(id, c)
    /\ toClient' = [toClient EXCEPT ![c] =
                      sendToClient("OPEN", @,
                          Entry([type |-> "session.created", sessionId |-> id],
                                "connection", 0, 0))]
    /\ UNCHANGED <<apiKey, conns, upstreamSent, nRecv, uncaught>>

Connection(c, id) == id \in generateSessionId /\ Accept(c, id)

(***************************************************************************)
(* The upstream transport (class WebSocket of the ws package), as the      *)
(* relay uses it.  new WebSocket(...) (246-251) starts CONNECTING.         *)
(*   owner        the session whose callbacks are registered on it         *)
(*   pendingError an 'error' event is due before the 'close' event         *)
(*   opened       the 'open' event was delivered                           *)
(*   timer        the agentSpeaksFirst timeout: none / armed / done        *)
(*   startReq     the number of the session.start that created it   *)
(*   closedBy     who called close() on it first, closedByReq the request, *)
(*                timerAtClose the state of the timer at that call         *)
(*   nEvents      upstream messages delivered on it, lastEvent the last    *)
(*   requested    session.config at the time the socket was created, kept  *)
(*                until the connection attempt is over                     *)
(***************************************************************************)
NewWebSocket(c, req) ==
    [owner |-> c, readyState |-> "CONNECTING", pendingError |-> FALSE,
     opened |-> FALSE, timer |-> "none", startReq |-> req,
     closedBy |-> "none", closedByReq |-> 0, timerAtClose |-> "none",
     nEvents |-> 0, lastEvent |-> [none |-> TRUE], requested |-> NullConfig]

\* WebSocket.close(): a CONNECTING socket aborts its handshake, which raises
\* 'error' and then 'close'; an OPEN socket starts the closing handshake;
\* a CLOSING or CLOSED socket is left as it is.
WebSocketClose(ws, by, req) ==
    IF ws.readyState = "CONNECTING"
    THEN [ws EXCEPT !.readyState = "CLOSING", !.pendingError = TRUE,
                    !.requested = NullConfig,
                    !.closedBy = by, !.closedByReq = req,
                    !.timerAtClose = ws.timer]
    ELSE IF ws.readyState = "OPEN"
    THEN [ws EXCEPT !.readyState = "CLOSING",
                    !.closedBy = by, !.closedByReq = req,
                    !.timerAtClose = ws.timer]
    ELSE ws

(***************************************************************************)
(* connectToOpenAI (236-253), up to the registration of the callbacks.     *)
(* Without a credential: one error to the client and no connection.        *)
(* Otherwise a new upstream WebSocket is created and attached.             *)
(***************************************************************************)
\* a credential test that never reports a missing credential
NoApiKeyIgnored == FALSE

\* the test of line 238: if (!apiKey)
NoApiKey == ~apiKey

\* a connect that announces session.ready before the socket has opened
connectToOpenAIReadyEarly(c, n) ==
    IF NoApiKey
    THEN /\ toClient' = [toClient EXCEPT ![c] =
                sendToClient(clientWs[c], @,
                    Entry([type |-> "error",
                           message |-> "OpenAI API key not configured"],
                          "connectToOpenAI", 0, n))]
         /\ UNCHANGED <<conns, upstreamSent, openaiWs>>
    ELSE /\ conns' = Append(conns, [NewWebSocket(c, n) EXCEPT
                                       !.requested = config'[c]])
         /\ upstreamSent' = Append(upstreamSent, << >>)
         /\ openaiWs' = [openaiWs EXCEPT ![c] = Len(conns) + 1]
         /\ toClient' = [toClient EXCEPT ![c] =
                sendToClient(clientWs[c], @,
                    Entry([type |-> "session.ready"], "connectToOpenAI",
                          Len(conns) + 1, n))]

connectToOpenAI(c, n) ==
    IF NoApiKey
    THEN /\ toClient' = [toClient EXCEPT ![c] =
                sendToClient(clientWs[c], @,
                    Entry([type |-> "error",
                           message |-> "OpenAI API key not configured"],
                          "connectToOpenAI", 0, n))]
         /\ UNCHANGED <<conns, upstreamSent, openaiWs>>
    ELSE /\ conns' = Append(conns, [NewWebSocket(c, n) EXCEPT
                                       !.requested = config'[c]])
         /\ upstreamSent' = Append(upstreamSent, << >>)
         /\ openaiWs' = [openaiWs EXCEPT ![c] = Len(conns) + 1]
         /\ UNCHANGED toClient

\* a catch block that only logs
MessageCatchSilent(c, n) == UNCHANGED toClient

\* the catch block of the 'message' callback (491-494)
MessageCatch(c, n) ==
    toClient' = [toClient EXCEPT ![c] =
        sendToClient(clientWs[c], @,
            Entry([type |-> "error", message |-> "Invalid message format"],
                  "message.catch", 0, n))]

(***************************************************************************)
(* handleClientMessage (435-464), one operator per case of the switch.     *)
(* n numbers the messages of one client: 1, 2, ...                         *)
(***************************************************************************)
\* a session.start that does not attach its configuration
ConfigOfStartDropped(c, message) == config[c]

\* the assignment of line 438: session.config = message.config
ConfigOfStart(c, message) == message.config

\* case 'session.start' (437-441)
SessionStart(c, message, n) ==
    /\ apiKey => Load + 1 < MaxLoad
    /\ config' = [config EXCEPT ![c] = ConfigOfStart(c, message)]
    /\ connectToOpenAI(c, n)
    /\ UNCHANGED <<uncaught>>

\* a guard that forwards on every link that is not closed yet
AudioGuardNotClosed(c) ==
    openaiWs[c] # NULL /\ conns[openaiWs[c]].readyState # "CLOSED"

\* a guard that only tests the handle for null
AudioGuardNonNull(c) == openaiWs[c] # NULL

\* the guard of line 445: session.openaiWs?.readyState === WebSocket.OPEN
AudioGuard(c) ==
    openaiWs[c] # NULL /\ conns[openaiWs[c]].readyState = "OPEN"

\* case 'audio.input' (443-453)
AudioInput(c, message, n) ==
    /\ IF AudioGuard(c)
       THEN upstreamSent' = [upstreamSent EXCEPT ![openaiWs[c]] =
                Append(@, [type |-> "input_audio_buffer.append",
                           audio |-> message.audio, req |-> n])]
       ELSE UNCHANGED upstreamSent
    /\ UNCHANGED <<config, openaiWs, conns, toClient, uncaught>>

\* a session.end that never finds a link to close
EndGuardNever(c) == FALSE

\* the guard of line 456: if (session.openaiWs)
EndGuard(c) == openaiWs[c] # NULL

\* case 'session.end' (455-462).  close() on a null handle would raise a
\* TypeError, which the try/catch of the 'message' callback (488-494) turns
\* into an 'Invalid message format' reply.
SessionEnd(c, n) ==
    IF EndGuard(c) /\ openaiWs[c] = NULL
    THEN /\ MessageCatch(c, n)
         /\ UNCHANGED <<config, openaiWs, conns, upstreamSent, uncaught>>
    ELSE /\ IF EndGuard(c)
            THEN /\ conns' = [conns EXCEPT ![openaiWs[c]] =
                                 WebSocketClose(@, "session.end", n)]
                 /\ openaiWs' = [openaiWs EXCEPT ![c] = NULL]
            ELSE UNCHANGED <<conns, openaiWs>>
         /\ toClient' = [toClient EXCEPT ![c] =
                sendToClient(clientWs[c], @,
                    Entry([type |-> "session.ended"], "session.end", 0, n))]
         /\ UNCHANGED <<config, upstreamSent, uncaught>>

\* a message whose type matches no case: the switch does nothing
OtherType(c) ==
    UNCHANGED <<config, openaiWs, conns, upstreamSent, toClient, uncaught>>

handleClientMessage(c, message, n) ==
    CASE message.type = "session.start" -> SessionStart(c, message, n)
      [] message.type = "audio.input" -> AudioInput(c, message, n)
      [] message.type = "session.end" -> SessionEnd(c, n)
      [] OTHER -> OtherType(c)

(***************************************************************************)
(* ws.on('message') (487-495): parse, dispatch; a parse failure is         *)
(* answered with a generic error.  Frames arrive only on an OPEN socket.   *)
(***************************************************************************)
ClientMessage(c, data) ==
    /\ clientWs[c] = "OPEN"
    /\ Load < MaxLoad
    /\ nRecv' = [nRecv EXCEPT ![c] = @ + 1]
    /\ LET parsed == JSONparse(data)
           n == nRecv[c] + 1
       IN IF parsed.threw
          THEN /\ MessageCatch(c, n)
               /\ UNCHANGED <<config, openaiWs, conns, upstreamSent, uncaught>>
          ELSE handleClientMessage(c, parsed.value, n)
    /\ UNCHANGED <<apiKey, clientWs, sessionId, sessions>>

(***************************************************************************)
(* The client transport: a close frame from the client puts the socket in  *)
(* CLOSING; the 'close' event is delivered once it is CLOSED.              *)
(***************************************************************************)
ClientClosing(c) ==
    /\ clientWs[c] = "OPEN"
    /\ clientWs' = [clientWs EXCEPT ![c] = "CLOSING"]
    /\ UNCHANGED <<apiKey, sessionId, sessions, config, openaiWs, conns,
                   upstreamSent, toClient, nRecv, uncaught>>

\* a close callback that leaves the registry as it is
RegistryDeleteNothing(id) == sessions

\* a close callback that empties the registry
RegistryClear(id) == << >>

\* sessions.delete(sessionId) (502)
RegistryDelete(id) ==
    [k \in (DOMAIN sessions) \ {id} |-> sessions[k]]

\* a close callback that never closes the upstream link
CloseGuardNever(c) == FALSE

\* the guard of line 499: if (session.openaiWs)
CloseGuard(c) == openaiWs[c] # NULL

\* ws.on('close') (497-503)
ClientClose(c) ==
    /\ clientWs[c] \in {"OPEN", "CLOSING"}
    /\ clientWs' = [clientWs EXCEPT ![c] = "CLOSED"]
    /\ IF CloseGuard(c) /\ openaiWs[c] = NULL
       THEN /\ uncaught' = TRUE
            /\ UNCHANGED <<conns, sessions>>
       ELSE /\ IF CloseGuard(c)
               THEN conns' = [conns EXCEPT ![openaiWs[c]] =
                                 WebSocketClose(@, "client.close", 0)]
               ELSE UNCHANGED conns
            /\ sessions' = RegistryDelete(sessionId[c])
            /\ UNCHANGED uncaught
    /\ UNCHANGED <<apiKey, sessionId, config, openaiWs, upstreamSent,
                   toClient, nRecv>>

(***************************************************************************)
(* Upstream -> relay vocabulary: the events handleOpenAIEvent switches on  *)
(* (329-432), with present, empty and absent fields.                       *)
(***************************************************************************)
\* the cases of lines 413-424, which only break
IgnoredEventTypes ==
    { "session.created", "session.updated",
      "input_audio_buffer.speech_started", "input_audio_buffer.speech_stopped",
      "input_audio_buffer.committed", "response.created",
      "response.output_item.added", "response.output_item.done",
      "response.content_part.added", "response.content_part.done",
      "rate_limits.updated", "conversation.item.created" }

UpstreamEvents ==
    { [type |-> "response.audio.delta", delta |-> "UklG"],
      [type |-> "response.audio_transcript.delta", delta |-> "Hel", item_id |-> "item_1"],
      [type |-> "response.audio_transcript.delta", delta |-> "", item_id |-> "item_1"],
      [type |-> "response.audio_transcript.done", transcript |-> "Hello", item_id |-> "item_1"],
      [type |-> "response.audio_transcript.done", transcript |-> ""],
      [type |-> "conversation.item.input_audio_transcription.completed",
       transcript |-> "Hi", item_id |-> ""],
      [type |-> "conversation.item.input_audio_transcription.completed",
       transcript |-> "", item_id |-> "item_2"],
      [type |-> "response.done",
       response |-> [usage |-> [input_tokens |-> 120, output_tokens |-> 45,
                                input_token_details |-> [audio_tokens |-> 30]]]],
      [type |-> "response.done",
       response |-> [usage |-> [output_token_details |-> [audio_tokens |-> 7]]]],
      [type |-> "response.done", response |-> [status |-> "cancelled"]],
      [type |-> "response.done"],
      [type |-> "error", error |-> [message |-> "rate limited"]],
      [type |-> "error"],
      [type |-> "response.text.delta"],
      [type |-> "response.audio.done"] }
    \cup { [type |-> t] : t \in IgnoredEventTypes }

\* Raw frames on an upstream socket.  The relay is explored with one frame
\* of each outcome: forwarded, reported as an error, ignored, not JSON.
RelayEvents ==
    { e \in UpstreamEvents :
        \/ e.type = "response.audio.delta"
        \/ e.type = "error" /\ "error" \in DOMAIN e
        \/ e.type = "session.updated" }

UpstreamData ==
    { [wellFormed |-> TRUE, value |-> e] : e \in RelayEvents }
    \cup { [wellFormed |-> FALSE] }

\* Every upstream frame of the vocabulary, for the study of the translator.
AllUpstreamData ==
    { [wellFormed |-> TRUE, value |-> e] : e \in UpstreamEvents }
    \cup { [wellFormed |-> FALSE] }

\* event.f as a string, "" when absent (every use is a truthiness test or || )
Str(rec, f) == IF f \in DOMAIN rec THEN rec[f] ELSE ""
\* a test that takes every present field for a text
HasField(rec, f) == f \in DOMAIN rec

\* if (delta), if (transcript): the field is a non-empty string
HasText(rec, f) == Str(rec, f) # ""

\* x || fallback on strings
StrOr(x, fallback) == IF x # "" THEN x ELSE fallback
\* rec?.f || 0 on numbers
NumOr0(rec, f) == IF f \in DOMAIN rec THEN rec[f] ELSE 0
\* rec.f as an object, the empty record when absent
Obj(rec, f) == IF f \in DOMAIN rec THEN rec[f] ELSE [absent |-> TRUE]

\* a default branch that reports the event to the client
UnhandledReported(event) ==
    << [type |-> "error", message |-> "Unknown error from AI"] >>

\* the default branch (426-431): a log line at most
Unhandled(event) == << >>

\* a usage message with the two audio counts exchanged
usageUpdateSwapped(usage) ==
    [type |-> "usage.update",
     inputTokens |-> NumOr0(usage, "input_tokens"),
     outputTokens |-> NumOr0(usage, "output_tokens"),
     audioInputMs |-> NumOr0(Obj(usage, "output_token_details"), "audio_tokens"),
     audioOutputMs |-> NumOr0(Obj(usage, "input_token_details"), "audio_tokens")]

\* the usage.update message of lines 388-399
usageUpdate(usage) ==
    [type |-> "usage.update",
     inputTokens |-> NumOr0(usage, "input_tokens"),
     outputTokens |-> NumOr0(usage, "output_tokens"),
     audioInputMs |-> NumOr0(Obj(usage, "input_token_details"), "audio_tokens"),
     audioOutputMs |-> NumOr0(Obj(usage, "output_token_details"), "audio_tokens")]

(***************************************************************************)
(* handleOpenAIEvent (321-433): the messages (none or one) the relay sends *)
(* to the client for one upstream event.                                   *)
(***************************************************************************)
handleOpenAIEvent(event) ==
    CASE event.type = "response.audio.delta" ->
            IF HasText(event, "delta")
            THEN << [type |-> "audio.output", audio |-> event.delta] >>
            ELSE << >>
      [] event.type = "response.audio_transcript.delta" ->
            IF HasText(event, "delta")
            THEN << [type |-> "transcript.partial", role |-> "assistant",
                     text |-> event.delta,
                     itemId |-> StrOr(Str(event, "item_id"), "unknown")] >>
            ELSE << >>
      [] event.type = "response.audio_transcript.done" ->
            IF HasText(event, "transcript")
            THEN << [type |-> "transcript.final", role |-> "assistant",
                     text |-> event.transcript,
                     itemId |-> StrOr(Str(event, "item_id"), "unknown")] >>
            ELSE << >>
      [] event.type = "conversation.item.input_audio_transcription.completed" ->
            IF HasText(event, "transcript")
            THEN << [type |-> "transcript.final", role |-> "user",
                     text |-> event.transcript,
                     itemId |-> StrOr(Str(event, "item_id"), "unknown")] >>
            ELSE << >>
      [] event.type = "response.done" ->
            IF "usage" \in DOMAIN Obj(event, "response")
            THEN << usageUpdate(event.response.usage) >>
            ELSE << >>
      [] event.type = "error" ->
            << [type |-> "error",
                message |-> StrOr(Str(Obj(event, "error"), "message"),
                                  "Unknown error from AI")] >>
      [] event.type \in IgnoredEventTypes -> << >>
      [] OTHER -> Unhandled(event)

(***************************************************************************)
(* The callbacks connectToOpenAI registers on the upstream socket.         *)
(***************************************************************************)
\* the session.update message of lines 259-277
sessionUpdate(cfg) ==
    [type |-> "session.update",
     instructions |-> StrOr(Str(cfg, "prompt"), "You are a helpful assistant."),
     voice |-> StrOr(Str(cfg, "voice"), "alloy"),
     threshold_x10 |-> 6, prefix_padding_ms |-> 200,
     silence_duration_ms |-> 700]

\* a flag test that is always true
AgentSpeaksFirstAlways(cfg) == TRUE

\* session.config?.agentSpeaksFirst (283)
AgentSpeaksFirst(cfg) ==
    "agentSpeaksFirst" \in DOMAIN cfg /\ cfg.agentSpeaksFirst

\* openaiWs.on('open') (255-298)
OnOpen(u) ==
    /\ conns[u].readyState = "CONNECTING"
    /\ LET c == conns[u].owner IN
       /\ conns' = [conns EXCEPT ![u].readyState = "OPEN", ![u].opened = TRUE,
                      ![u].requested = NullConfig,
                      ![u].timer = IF AgentSpeaksFirst(config[c])
                                   THEN "armed" ELSE "none"]
       /\ upstreamSent' = [upstreamSent EXCEPT ![u] =
                              Append(@, sessionUpdate(config[c]))]
       /\ toClient' = [toClient EXCEPT ![c] =
              sendToClient(clientWs[c], @,
                  Entry([type |-> "session.ready"], "upstream.open", u,
                        conns[u].startReq))]
    /\ UNCHANGED <<apiKey, clientWs, sessionId, sessions, config, openaiWs,
                   nRecv, uncaught>>

\* a timer callback that only skips a closed socket
TimerGuardNotClosed(u) == conns[u].readyState # "CLOSED"

\* a timer callback without the liveness test
TimerGuardAlways(u) == TRUE

\* the liveness test of line 285: openaiWs.readyState === WebSocket.OPEN
TimerGuard(u) == conns[u].readyState = "OPEN"

\* the setTimeout callback (284-296)
GreetingTimer(u) ==
    /\ conns[u].timer = "armed"
    /\ conns' = [conns EXCEPT ![u].timer = "done"]
    /\ IF TimerGuard(u)
       THEN upstreamSent' = [upstreamSent EXCEPT ![u] =
                Append(@, [type |-> "response.create"])]
       ELSE UNCHANGED upstreamSent
    /\ UNCHANGED <<apiKey, clientWs, sessionId, sessions, config, openaiWs,
                   toClient, nRecv, uncaught>>

\* a message callback that reports an unreadable frame to the client
OnMessageReportsMalformed(u, data) ==
    /\ conns[u].opened
    /\ conns[u].readyState \in {"OPEN", "CLOSING"}
    /\ Load < MaxLoad
    /\ conns' = [conns EXCEPT ![u].nEvents = @ + 1, ![u].lastEvent = data]
    /\ LET c == conns[u].owner
           parsed == JSONparse(data)
           out == IF parsed.threw
                  THEN << [type |-> "error", message |-> "Invalid message format"] >>
                  ELSE handleOpenAIEvent(parsed.value)
       IN toClient' = [toClient EXCEPT ![c] =
              IF out = << >> THEN @
              ELSE sendToClient(clientWs[c], @,
                       Entry(out[1], "upstream.message", u, 0))]
    /\ UNCHANGED <<apiKey, clientWs, sessionId, sessions, config, openaiWs,
                   upstreamSent, nRecv, uncaught>>

\* a message callback that hangs up when the upstream peer reports an error
OnMessageClosesOnError(u, data) ==
    /\ conns[u].opened
    /\ conns[u].readyState \in {"OPEN", "CLOSING"}
    /\ Load < MaxLoad
    /\ LET c == conns[u].owner
           parsed == JSONparse(data)
           out == IF parsed.threw THEN << >> ELSE handleOpenAIEvent(parsed.value)
           isError == ~parsed.threw /\ parsed.value.type = "error"
           counted == [conns[u] EXCEPT !.nEvents = @ + 1, !.lastEvent = data]
       IN /\ toClient' = [toClient EXCEPT ![c] =
                 IF out = << >> THEN @
                 ELSE sendToClient(clientWs[c], @,
                          Entry(out[1], "upstream.message", u, 0))]
          /\ conns' = [conns EXCEPT ![u] =
                 IF isError THEN WebSocketClose(counted, "upstream.message", 0)
                 ELSE counted]
          /\ openaiWs' = [openaiWs EXCEPT ![c] = IF isError THEN NULL ELSE @]
    /\ UNCHANGED <<apiKey, clientWs, sessionId, sessions, config,
                   upstreamSent, nRecv, uncaught>>

\* openaiWs.on('message') (300-307); messages keep arriving on a socket that
\* was open until its 'close' event.
OnMessage(u, data) ==
    /\ conns[u].opened
    /\ conns[u].readyState \in {"OPEN", "CLOSING"}
    /\ Load < MaxLoad
    /\ conns' = [conns EXCEPT ![u].nEvents = @ + 1, ![u].lastEvent = data]
    /\ LET c == conns[u].owner
           parsed == JSONparse(data)
           out == IF parsed.threw THEN << >> ELSE handleOpenAIEvent(parsed.value)
       IN toClient' = [toClient EXCEPT ![c] =
              IF out = << >> THEN @
              ELSE sendToClient(clientWs[c], @,
                       Entry(out[1], "upstream.message", u, 0))]
    /\ UNCHANGED <<apiKey, clientWs, sessionId, sessions, config, openaiWs,
                   upstreamSent, nRecv, uncaught>>

\* an error callback that removes the session from the registry
OnErrorDestroys(u) ==
    /\ \/ conns[u].readyState \in {"CONNECTING", "OPEN"}
       \/ conns[u].pendingError
    /\ conns' = [conns EXCEPT ![u].readyState = "CLOSING",
                              ![u].pendingError = FALSE,
                              ![u].requested = NullConfig]
    /\ LET c == conns[u].owner IN
       /\ toClient' = [toClient EXCEPT ![c] =
              sendToClient(clientWs[c], @,
                  Entry([type |-> "error", message |-> "Connection to AI failed"],
                        "upstream.error", u, conns[u].closedByReq))]
       /\ sessions' = RegistryDelete(sessionId[c])
    /\ UNCHANGED <<apiKey, clientWs, sessionId, config, openaiWs,
                   upstreamSent, nRecv, uncaught>>

\* an error callback that reconnects
OnErrorRetry(u) ==
    /\ \/ conns[u].readyState \in {"CONNECTING", "OPEN"}
       \/ conns[u].pendingError
    /\ LET c == conns[u].owner
           failed == [conns EXCEPT ![u].readyState = "CLOSING",
                                   ![u].pendingError = FALSE,
                                   ![u].requested = NullConfig] IN
       /\ toClient' = [toClient EXCEPT ![c] =
              sendToClient(clientWs[c], @,
                  Entry([type |-> "error", message |-> "Connection to AI failed"],
                        "upstream.error", u, conns[u].closedByReq))]
       /\ IF Len(conns) < MaxLoad
          THEN /\ conns' = Append(failed,
                              [NewWebSocket(c, conns[u].startReq) EXCEPT
                                  !.requested = config[c]])
               /\ upstreamSent' = Append(upstreamSent, << >>)
               /\ openaiWs' = [openaiWs EXCEPT ![c] = Len(conns) + 1]
          ELSE /\ conns' = failed
               /\ UNCHANGED <<upstreamSent, openaiWs>>
    /\ UNCHANGED <<apiKey, clientWs, sessionId, sessions, config, nRecv,
                   uncaught>>

\* openaiWs.on('error') (309-312).  The transport raises 'error' when the
\* connection attempt or the open link fails, and when close() aborted the
\* handshake; the socket is CLOSING afterwards and 'close' follows.
OnError(u) ==
    /\ \/ conns[u].readyState \in {"CONNECTING", "OPEN"}
       \/ conns[u].pendingError
    /\ conns' = [conns EXCEPT ![u].readyState = "CLOSING",
                              ![u].pendingError = FALSE,
                              ![u].requested = NullConfig]
    /\ LET c == conns[u].owner IN
       toClient' = [toClient EXCEPT ![c] =
           sendToClient(clientWs[c], @,
               Entry([type |-> "error", message |-> "Connection to AI failed"],
                     "upstream.error", u, conns[u].closedByReq))]
    /\ UNCHANGED <<apiKey, clientWs, sessionId, sessions, config, openaiWs,
                   upstreamSent, nRecv, uncaught>>

\* a close callback that leaves the handle as it is
HandleAfterCloseKept(c, u) == openaiWs[c]

\* the assignment of line 317: session.openaiWs = null
HandleAfterClose(c, u) == NULL

\* a close callback that clears the handle and tells the client nothing
OnCloseSilent(u) ==
    /\ conns[u].readyState \in {"OPEN", "CLOSING"}
    /\ ~conns[u].pendingError
    /\ conns' = [conns EXCEPT ![u].readyState = "CLOSED"]
    /\ openaiWs' = [openaiWs EXCEPT ![conns[u].owner] = NULL]
    /\ UNCHANGED <<apiKey, clientWs, sessionId, sessions, config,
                   upstreamSent, toClient, nRecv, uncaught>>

\* openaiWs.on('close') (314-318): raised when the peer closes an open link
\* and when a closing socket is closed.
OnClose(u) ==
    /\ conns[u].readyState \in {"OPEN", "CLOSING"}
    /\ ~conns[u].pendingError
    /\ conns' = [conns EXCEPT ![u].readyState = "CLOSED"]
    /\ LET c == conns[u].owner IN
       /\ toClient' = [toClient EXCEPT ![c] =
              sendToClient(clientWs[c], @,
                  Entry([type |-> "session.ended"], "upstream.close", u,
                        conns[u].closedByReq))]
       /\ openaiWs' = [openaiWs EXCEPT ![c] = HandleAfterClose(c, u)]
    /\ UNCHANGED <<apiKey, clientWs, sessionId, sessions, config,
                   upstreamSent, nRecv, uncaught>>

Next ==
    \/ \E c \in Clients : \E id \in SessionIds : Connection(c, id)
    \/ \E c \in Clients : \E data \in ClientData : ClientMessage(c, data)
    \/ \E c \in Clients : ClientClosing(c)
    \/ \E c \in Clients : ClientClose(c)
    \/ \E u \in Upstreams : OnOpen(u)
    \/ \E u \in Upstreams : GreetingTimer(u)
    \/ \E u \in Upstreams : \E data \in UpstreamData : OnMessage(u, data)
    \/ \E u \in Upstreams : OnError(u)
    \/ \E u \in Upstreams : OnClose(u)

Spec == Init /\ [][Next]_vars

(***************************************************************************)
(* The event loop delivers what the transport has pending: a connection    *)
(* attempt opens or fails, an aborted or closing socket gets its 'error'   *)
(* and 'close' events, an armed timer fires.  Nothing obliges a client to  *)
(* send or to leave, nor the upstream peer to speak or to hang up.         *)
(***************************************************************************)
TransportStep(u) ==
    /\ u \in Upstreams
    /\ \/ conns[u].readyState = "CONNECTING" /\ (OnOpen(u) \/ OnError(u))
       \/ conns[u].readyState = "CLOSING" /\ (OnError(u) \/ OnClose(u))
       \/ GreetingTimer(u)

FairSpec == Spec /\ \A u \in 1..MaxLoad : WF_vars(TransportStep(u))

(***************************************************************************)
(* The translator on its own: one session whose client connected and sent  *)
(* session.start with configuration cfg and whose upstream connection has  *)
(* opened; from there the upstream peer sends any frames of the whole      *)
(* vocabulary.                                                             *)
(***************************************************************************)
StartedAndOpen(cfg) ==
    /\ apiKey = TRUE
    /\ clientWs = [c \in Clients |-> IF c = 1 THEN "OPEN" ELSE "NONE"]
    /\ sessionId = [c \in Clients |-> IF c = 1 THEN 1 ELSE NULL]
    /\ sessions = [k \in {1} |-> 1]
    /\ config = [c \in Clients |-> IF c = 1 THEN cfg ELSE NullConfig]
    /\ openaiWs = [c \in Clients |-> IF c = 1 THEN 1 ELSE NULL]
    /\ conns = << [NewWebSocket(1, 1) EXCEPT
                     !.readyState = "OPEN", !.opened = TRUE,
                     !.timer = IF AgentSpeaksFirst(cfg) THEN "armed" ELSE "none"] >>
    /\ upstreamSent = << << sessionUpdate(cfg) >> >>
    /\ toClient = [c \in Clients |->
                     IF c = 1
                     THEN << Entry([type |-> "session.created", sessionId |-> 1],
                                   "connection", 0, 0),
                             Entry([type |-> "session.ready"],
                                   "upstream.open", 1, 1) >>
                     ELSE << >>]
    /\ nRecv = [c \in Clients |-> IF c = 1 THEN 1 ELSE 0]
    /\ uncaught = FALSE

TranslateInit == \E cfg \in Configs : StartedAndOpen(cfg)

TranslateNext ==
    \E u \in Upstreams : \E data \in AllUpstreamData : OnMessage(u, data)

TranslateSpec == TranslateInit /\ [][TranslateNext]_vars

(***************************************************************************)
(* The registry when the draw of generateSessionId is left open.  The      *)
(* token is built from the clock and a random suffix and is not compared   *)
(* with the tokens in the registry (226-228, 472), so here the draw may    *)
(* return any token, one already issued included.  The upstream callbacks  *)
(* neither read nor write the registry and the identifiers and are left    *)
(* out; connections that a session.start creates stay connecting until the *)
(* client closes.                                                          *)
(***************************************************************************)
AnyConnection(c, id) == Accept(c, id)

CollisionNext ==
    \/ \E c \in Clients : \E id \in SessionIds : AnyConnection(c, id)
    \/ \E c \in Clients : \E data \in ClientData : ClientMessage(c, data)
    \/ \E c \in Clients : ClientClosing(c)
    \/ \E c \in Clients : ClientClose(c)

CollisionSpec == Init /\ [][CollisionNext]_vars

(***************************************************************************)
(* The negotiation for the configurations a client can put on the wire.    *)
(* The 'message' callback casts the parsed JSON to ClientMessage without   *)
(* looking at it (489), so the config object of a session.start has the    *)
(* fields its sender gave it: those of the SessionConfig type (voice,      *)
(* prompt, agentSpeaksFirst), or voice, instructions and agentSpeaksFirst  *)
(* as the external interface names them.  Clients connect and start, the   *)
(* upstream connections open.                                              *)
(***************************************************************************)
WireConfigs ==
    Configs
    \cup { [voice |-> "shimmer", instructions |-> "Be brief.",
            agentSpeaksFirst |-> FALSE],
           [voice |-> "", instructions |-> "", agentSpeaksFirst |-> TRUE] }

StartData ==
    { [wellFormed |-> TRUE, value |-> [type |-> "session.start", config |-> cfg]] :
        cfg \in WireConfigs }

NegotiationNext ==
    \/ \E c \in Clients : \E id \in SessionIds : Connection(c, id)
    \/ \E c \in Clients : \E data \in StartData : ClientMessage(c, data)
    \/ \E u \in Upstreams : OnOpen(u)

NegotiationSpec == Init /\ [][NegotiationNext]_vars

(***************************************************************************)
(* The standalone server (server.js, src/README.md:204-452), on the same   *)
(* state.  Its sendToClient, connectToOpenAI up to the callbacks, the      *)
(* cases of its handleClientMessage switch and its connection, error,      *)
(* close and timer callbacks are the statements of audio.ts; what is       *)
(* written differently is below.                                           *)
(***************************************************************************)
\* the session.update message of README.md:249-265
JsSessionUpdate(cfg) ==
    [type |-> "session.update",
     instructions |-> StrOr(Str(cfg, "prompt"), "You are a helpful assistant."),
     voice |-> StrOr(Str(cfg, "voice"), "alloy"),
     threshold_x10 |-> 5, prefix_padding_ms |-> 300,
     silence_duration_ms |-> 500]

\* the usage.update message of README.md:361-367: audio_tokens * 20 || 0
JsUsageUpdate(usage) ==
    [type |-> "usage.update",
     inputTokens |-> NumOr0(usage, "input_tokens"),
     outputTokens |-> NumOr0(usage, "output_tokens"),
     audioInputMs |->
        NumOr0(Obj(usage, "input_token_details"), "audio_tokens") * 20,
     audioOutputMs |->
        NumOr0(Obj(usage, "output_token_details"), "audio_tokens") * 20]

\* handleOpenAIEvent of server.js (README.md:307-381); the switch has no
\* default case
JsHandleOpenAIEvent(event) ==
    CASE event.type = "response.audio.delta" ->
            IF Str(event, "delta") # ""
            THEN << [type |-> "audio.output", audio |-> event.delta] >>
            ELSE << >>
      [] event.type = "response.audio_transcript.delta" ->
            IF Str(event, "delta") # ""
            THEN << [type |-> "transcript.partial", role |-> "assistant",
                     text |-> event.delta,
                     itemId |-> StrOr(Str(event, "item_id"), "unknown")] >>
            ELSE << >>
      [] event.type = "response.audio_transcript.done" ->
            IF Str(event, "transcript") # ""
            THEN << [type |-> "transcript.final", role |-> "assistant",
                     text |-> event.transcript,
                     itemId |-> StrOr(Str(event, "item_id"), "unknown")] >>
            ELSE << >>
      [] event.type = "conversation.item.input_audio_transcription.completed" ->
            IF Str(event, "transcript") # ""
            THEN << [type |-> "transcript.final", role |-> "user",
                     text |-> event.transcript,
                     itemId |-> StrOr(Str(event, "item_id"), "unknown")] >>
            ELSE << >>
      [] event.type = "response.done" ->
            IF "usage" \in DOMAIN Obj(event, "response")
            THEN << JsUsageUpdate(event.response.usage) >>
            ELSE << >>
      [] event.type = "error" ->
            << [type |-> "error",
                message |-> StrOr(Str(Obj(event, "error"), "message"),
                                  "Unknown error from AI")] >>
      [] OTHER -> << >>

\* openaiWs.on('open') of server.js (README.md:246-284)
JsOnOpen(u) ==
    /\ conns[u].readyState = "CONNECTING"
    /\ LET c == conns[u].owner IN
       /\ conns' = [conns EXCEPT ![u].readyState = "OPEN", ![u].opened = TRUE,
                      ![u].requested = NullConfig,
                      ![u].timer = IF AgentSpeaksFirst(config[c])
                                   THEN "armed" ELSE "none"]
       /\ upstreamSent' = [upstreamSent EXCEPT ![u] =
                              Append(@, JsSessionUpdate(config[c]))]
       /\ toClient' = [toClient EXCEPT ![c] =
              sendToClient(clientWs[c], @,
                  Entry([type |-> "session.ready"], "upstream.open", u,
                        conns[u].startReq))]
    /\ UNCHANGED <<apiKey, clientWs, sessionId, sessions, config, openaiWs,
                   nRecv, uncaught>>

\* openaiWs.on('message') of server.js (README.md:286-293)
JsOnMessage(u, data) ==
    /\ conns[u].opened
    /\ conns[u].readyState \in {"OPEN", "CLOSING"}
    /\ Load < MaxLoad
    /\ conns' = [conns EXCEPT ![u].nEvents = @ + 1, ![u].lastEvent = data]
    /\ LET c == conns[u].owner
           parsed == JSONparse(data)
           out == IF parsed.threw THEN << >>
                  ELSE JsHandleOpenAIEvent(parsed.value)
       IN toClient' = [toClient EXCEPT ![c] =
              IF out = << >> THEN @
              ELSE sendToClient(clientWs[c], @,
                       Entry(out[1], "upstream.message", u, 0))]
    /\ UNCHANGED <<apiKey, clientWs, sessionId, sessions, config, openaiWs,
                   upstreamSent, nRecv, uncaught>>

\* ws.on('message') and handleClientMessage of server.js (README.md:383-416,
\* 437): JSON.parse and the switch are inside one try whose catch only logs
JsClientMessage(c, data) ==
    /\ clientWs[c] = "OPEN"
    /\ Load < MaxLoad
    /\ nRecv' = [nRecv EXCEPT ![c] = @ + 1]
    /\ LET parsed == JSONparse(data)
           n == nRecv[c] + 1
       IN IF parsed.threw
          THEN UNCHANGED <<config, openaiWs, conns, upstreamSent, toClient,
                           uncaught>>
          ELSE handleClientMessage(c, parsed.value, n)
    /\ UNCHANGED <<apiKey, clientWs, sessionId, sessions>>

(***************************************************************************)
(* Properties                                                              *)
(***************************************************************************)
Indices(log, P(_)) == { i \in DOMAIN log : P(log[i]) }
IsEnded(e) == e.msg.type = "session.ended"
IsError(e) == e.msg.type = "error"
IsGreeting(m) == m.type = "response.create"

\* The session.ended messages client c got because of its request number n:
\* the reply of the session.end case and the close callback of the
\* connection that request closed.
EndedFor(c, n) == Indices(toClient[c], LAMBDA e : IsEnded(e) /\ e.req = n)
ErrorsFor(c, n) == Indices(toClient[c], LAMBDA e : IsError(e) /\ e.req = n)
\* The numbers of the session.end requests of client c processed so far.
EndRequests(c) ==
    { toClient[c][i].req :
        i \in Indices(toClient[c], LAMBDA e : e.by = "session.end") }

\* C1: every processed session.end causes exactly one session.ended to the
\* client in total, the close callback of the connection it closes included.
C1_ExactlyOneEnded ==
    \A c \in Clients : \A n \in EndRequests(c) :
        Cardinality(EndedFor(c, n)) = 1

\* C2: a session never has more than one upstream connection that is
\* connecting or open.
LiveUpstreams(c) ==
    { u \in Upstreams : conns[u].owner = c
                        /\ conns[u].readyState \in {"CONNECTING", "OPEN"} }

C2_AtMostOneUpstream ==
    \A c \in Clients : Cardinality(LiveUpstreams(c)) <= 1

\* C3: the step in which the client transport closes also closes the
\* attached upstream link (it is closing or closed afterwards) and removes
\* the session identifier from the registry, attached link or not.
C3_ClientCloseTearsDown ==
    [][\A c \in Clients :
         (clientWs[c] # "CLOSED" /\ clientWs'[c] = "CLOSED") =>
            /\ sessionId[c] \notin DOMAIN sessions'
            /\ openaiWs[c] # NULL =>
                  conns'[openaiWs[c]].readyState \in {"CLOSING", "CLOSED"}]_vars

C3_Witness ==
    \E u \in Upstreams :
        /\ conns[u].closedBy = "client.close"
        /\ conns[u].opened
        /\ clientWs[conns[u].owner] = "CLOSED"
        /\ sessionId[conns[u].owner] \notin DOMAIN sessions

\* C4: once the client transport of a session has closed, every upstream
\* connection created for that session is eventually closed.
C4_NoUpstreamLeak ==
    \A u \in 1..MaxLoad :
        [](u \in Upstreams /\ clientWs[conns[u].owner] = "CLOSED"
             => <>(u \in Upstreams /\ conns[u].readyState = "CLOSED"))

TerminalsOf(u) ==
    Indices(toClient[conns[u].owner],
            LAMBDA e : e.conn = u /\ (IsError(e) \/ IsEnded(e))
                       /\ e.by \in {"upstream.error", "upstream.close"})

C7_OneTerminalPerFailure ==
    \A u \in Upstreams :
        conns[u].closedBy = "none" => Cardinality(TerminalsOf(u)) <= 1

ClosedOpenLink(c, n) ==
    \E u \in Upstreams :
        /\ conns[u].owner = c
        /\ conns[u].opened
        /\ conns[u].closedBy = "session.end"
        /\ conns[u].closedByReq = n

C9_TwoEndsTwoEnded ==
    \A c \in Clients : \A n \in EndRequests(c) :
        ((n + 1) \in EndRequests(c) /\ ClosedOpenLink(c, n)) =>
            /\ Cardinality(EndedFor(c, n) \cup EndedFor(c, n + 1)) = 2
            /\ ErrorsFor(c, n) \cup ErrorsFor(c, n + 1) = {}

\* C10: a step is an event of one session only, and it changes the
\* configuration, the upstream handle, the registry entry and the client's
\* messages of no other session.
SessionState(c) ==
    <<config[c], openaiWs[c],
      { id \in DOMAIN sessions : sessions[id] = c }, toClient[c]>>

IsStart(c) ==
    \E cfg \in Configs :
        ClientMessage(c, [wellFormed |-> TRUE,
                          value |-> [type |-> "session.start", config |-> cfg]])

\* C11: a session.start processed without an API credential sends exactly
\* one message to the client, the configuration error, creates no upstream
\* connection and leaves the upstream handle of the session null.
C11_NoCredentialNoConnect ==
    [][\A c \in Clients : (~apiKey /\ IsStart(c)) =>
         /\ Len(toClient'[c]) = Len(toClient[c]) + 1
         /\ toClient'[c][Len(toClient'[c])].msg =
                [type |-> "error", message |-> "OpenAI API key not configured"]
         /\ conns' = << >>
         /\ upstreamSent' = << >>
         /\ openaiWs[c] = NULL /\ openaiWs'[c] = NULL]_vars

C11_Witness ==
    /\ ~apiKey
    /\ \E c \in Clients :
          /\ Cardinality(Indices(toClient[c],
                                 LAMBDA e : e.by = "connectToOpenAI")) = 2
          /\ openaiWs[c] = NULL
          /\ config[c] \in Configs
    /\ conns = << >>

\* C12: when an upstream connection attempt fails, the client (if its
\* connection is open) is sent the error 'Connection to AI failed', and once
\* the failure is handled, the 'close' event of the failed socket included,
\* the upstream handle of the session is null; the handle never names a
\* closed connection.
FailedToConnect(u) == ~conns[u].opened /\ conns[u].closedBy = "none"

C12_ConnectFailureNullsHandle ==
    /\ [](\A c \in Clients :
            openaiWs[c] # NULL => conns[openaiWs[c]].readyState # "CLOSED")
    /\ [][\A u \in Upstreams :
            LET c == conns[u].owner IN
            /\ (conns[u].readyState = "CONNECTING" /\ OnError(u)
                   /\ clientWs[c] = "OPEN") =>
                  /\ Len(toClient'[c]) = Len(toClient[c]) + 1
                  /\ toClient'[c][Len(toClient'[c])].msg =
                        [type |-> "error", message |-> "Connection to AI failed"]
            /\ (FailedToConnect(u) /\ OnClose(u)) =>
                  openaiWs'[c] = NULL]_vars

C12_Witness ==
    \E u \in Upstreams :
        LET c == conns[u].owner IN
        /\ FailedToConnect(u)
        /\ conns[u].readyState = "CLOSED"
        /\ clientWs[c] = "OPEN"
        /\ openaiWs[c] = NULL
        /\ \E i \in DOMAIN toClient[c] :
              /\ toClient[c][i].conn = u
              /\ toClient[c][i].msg =
                    [type |-> "error", message |-> "Connection to AI failed"]

\* C13: the 'close' callback of an upstream connection sends session.ended
\* to the client if the client transport is open, and nothing otherwise (in
\* particular after the client closed and the registry entry was removed);
\* it sets the upstream handle of the session to null and raises nothing.
EndedBy(c, u) ==
    Indices(toClient[c], LAMBDA e : IsEnded(e) /\ e.by = "upstream.close"
                                     /\ e.conn = u)

C13_UpstreamCloseHandled ==
    [][\A u \in Upstreams :
         LET c == conns[u].owner IN
         OnClose(u) =>
            /\ clientWs[c] = "OPEN" =>
                  /\ Len(toClient'[c]) = Len(toClient[c]) + 1
                  /\ toClient'[c][Len(toClient'[c])].msg =
                        [type |-> "session.ended"]
            /\ clientWs[c] # "OPEN" => toClient' = toClient
            /\ openaiWs'[c] = NULL
            /\ uncaught' = FALSE]_vars

C13_Witness ==
    \E u, v \in Upstreams :
        LET c == conns[u].owner IN
        /\ conns[v].owner = c
        /\ conns[u].readyState = "CLOSED" /\ EndedBy(c, u) # {}
        /\ conns[v].readyState = "CLOSED" /\ EndedBy(c, v) = {}
        /\ conns[v].closedBy = "client.close"
        /\ clientWs[c] = "CLOSED"
        /\ sessionId[c] \notin DOMAIN sessions

\* The step in which the relay processes an audio.input of client c.
IsAudio(c) ==
    ClientMessage(c, [wellFormed |-> TRUE,
                      value |-> [type |-> "audio.input", audio |-> "AAAA"]])

\* C14: an audio.input is forwarded, as one input_audio_buffer.append with
\* the same payload on the attached upstream connection, exactly when that
\* connection is open; with a null handle or a connecting, closing or closed
\* connection nothing is sent upstream.  In both cases nothing is sent to
\* the client and the session, the registry and the connections stay as
\* they are.
C14_AudioForwardedIffOpen ==
    [][\A c \in Clients : IsAudio(c) =>
         LET u == openaiWs[c] IN
         /\ (u # NULL /\ conns[u].readyState = "OPEN") =>
               /\ Len(upstreamSent'[u]) = Len(upstreamSent[u]) + 1
               /\ LET m == upstreamSent'[u][Len(upstreamSent'[u])] IN
                     m.type = "input_audio_buffer.append" /\ m.audio = "AAAA"
               /\ \A v \in Upstreams \ {u} : upstreamSent'[v] = upstreamSent[v]
         /\ (u = NULL \/ conns[u].readyState # "OPEN") =>
               upstreamSent' = upstreamSent
         /\ UNCHANGED <<toClient, config, openaiWs, conns, sessions,
                         sessionId, clientWs, uncaught>>]_vars

\* One audio.input forwarded on an open link, the next one dropped on the
\* same link while it is closing.
C14_Witness ==
    \E u \in Upstreams :
        LET c == conns[u].owner
            n == nRecv[c] IN
        /\ openaiWs[c] = u
        /\ conns[u].readyState = "CLOSING"
        /\ n >= 3
        /\ Indices(upstreamSent[u],
                   LAMBDA m : m.type = "input_audio_buffer.append") # {}
        /\ \A i \in DOMAIN upstreamSent[u] :
              upstreamSent[u][i].type = "input_audio_buffer.append" =>
                 upstreamSent[u][i].req = n - 1 /\ upstreamSent[u][i].audio = "AAAA"
        /\ \A i \in DOMAIN toClient[c] : toClient[c][i].req # n
        /\ \A v \in Upstreams : conns[v].owner = c => conns[v].startReq # n

\* The step in which the relay handles upstream event e on connection u.
Handles(u, e) == OnMessage(u, [wellFormed |-> TRUE, value |-> e])

TranscriptTypes ==
    { "response.audio_transcript.delta", "response.audio_transcript.done",
      "conversation.item.input_audio_transcription.completed" }
TextField(e) ==
    IF e.type = "response.audio_transcript.delta" THEN "delta" ELSE "transcript"
IsTranscript(m) == m.type \in {"transcript.partial", "transcript.final"}

\* C15: an upstream transcript event (assistant delta, assistant final,
\* user final) whose text is empty sends nothing to the client, and no
\* transcript message with an empty text is ever sent.
C15_NoEmptyTranscript ==
    /\ [](\A c \in Clients : \A i \in DOMAIN toClient[c] :
            IsTranscript(toClient[c][i].msg) => toClient[c][i].msg.text # "")
    /\ [][\A u \in Upstreams : \A e \in UpstreamEvents :
            (e.type \in TranscriptTypes /\ Str(e, TextField(e)) = ""
               /\ Handles(u, e)) => toClient' = toClient]_vars

\* The last upstream frame handled.
LastEvent(u) ==
    IF conns[u].nEvents > 0 /\ conns[u].lastEvent.wellFormed
    THEN conns[u].lastEvent.value ELSE [type |-> "none"]

\* An empty user transcript was handled on an open session and the client
\* has only its session.created and session.ready.
C15_Witness ==
    \E u \in Upstreams :
        /\ LastEvent(u).type =
              "conversation.item.input_audio_transcription.completed"
        /\ LastEvent(u).transcript = ""
        /\ conns[u].nEvents = 2
        /\ clientWs[conns[u].owner] = "OPEN"
        /\ Len(toClient[conns[u].owner]) = 2

\* The message the step appended to the log of client c, if it appended one.
Sent(c) == toClient'[c][Len(toClient'[c])].msg
SentOne(c) == Len(toClient'[c]) = Len(toClient[c]) + 1

UsageMessage(i, o, ai, ao) ==
    [type |-> "usage.update", inputTokens |-> i, outputTokens |-> o,
     audioInputMs |-> ai, audioOutputMs |-> ao]

UsageExample ==
    [type |-> "response.done",
     response |-> [usage |-> [input_tokens |-> 120, output_tokens |-> 45,
                              input_token_details |-> [audio_tokens |-> 30]]]]
UsageAudioOutOnly ==
    [type |-> "response.done",
     response |-> [usage |-> [output_token_details |-> [audio_tokens |-> 7]]]]

\* C16: a response.done whose response carries a usage object sends one
\* usage.update with the four counts copied and every missing one 0: usage
\* {input_tokens 120, output_tokens 45, input_token_details.audio_tokens 30}
\* gives {120, 45, 30, 0}, usage {output_token_details.audio_tokens 7} gives
\* {0, 0, 0, 7}.
C16_UsageTranslated ==
    [][\A u \in Upstreams :
         LET c == conns[u].owner IN
         /\ Handles(u, UsageExample) =>
               SentOne(c) /\ Sent(c) = UsageMessage(120, 45, 30, 0)
         /\ Handles(u, UsageAudioOutOnly) =>
               SentOne(c) /\ Sent(c) = UsageMessage(0, 0, 0, 7)]_vars

C16_Witness ==
    \E u \in Upstreams :
        LET log == toClient[conns[u].owner] IN
        /\ LastEvent(u) = UsageExample
        /\ log[Len(log)].msg = UsageMessage(120, 45, 30, 0)
        /\ log[Len(log)].conn = u

\* C17: for a client that is connected and has sent one message, a
\* session.start with agentSpeaksFirst false, and whose upstream connection
\* opened: the first message to the client is the session.created of the
\* 'connection' callback, the second is session.ready, and no
\* response.create is sent upstream (no timer is armed).
C17_CreatedThenReadyNoGreeting ==
    \A u \in Upstreams :
        LET c == conns[u].owner
            log == toClient[c] IN
        (conns[u].opened /\ nRecv[c] = 1 /\ clientWs[c] = "OPEN"
           /\ config[c] \in Configs /\ ~config[c].agentSpeaksFirst) =>
            /\ Len(log) >= 2
            /\ log[1].msg = [type |-> "session.created",
                              sessionId |-> sessionId[c]]
            /\ log[1].by = "connection"
            /\ log[2].msg = [type |-> "session.ready"]
            /\ \A i \in DOMAIN log : i > 2 => log[i].by # "upstream.open"
            /\ conns[u].timer = "none"
            /\ Indices(upstreamSent[u], IsGreeting) = {}

C17_Witness ==
    \E u \in Upstreams :
        LET c == conns[u].owner IN
        /\ conns[u].readyState = "OPEN" /\ nRecv[c] = 1 /\ clientWs[c] = "OPEN"
        /\ config[c] \in Configs /\ ~config[c].agentSpeaksFirst
        /\ conns[u].nEvents = 2
        /\ Len(toClient[c]) = 2
        /\ upstreamSent[u] = << sessionUpdate(config[c]) >>

\* The session of client c has ended or failed: a session.end was
\* processed, or one of its upstream connections failed or closed.
SessionOver(c) ==
    \/ EndRequests(c) # {}
    \/ \E u \in Upstreams : /\ conns[u].owner = c
                             /\ conns[u].readyState \in {"CLOSING", "CLOSED"}

\* The upstream connection created by the latest session.start of client c.
LatestConn(c) ==
    LET mine == { u \in Upstreams : conns[u].owner = c } IN
    IF mine = {} THEN NULL ELSE CHOOSE u \in mine : \A v \in mine : v <= u

Signal(u) ==
    \E i \in DOMAIN toClient[conns[u].owner] :
        LET e == toClient[conns[u].owner][i] IN
        /\ e.conn = u
        /\ e.msg.type \in {"session.ready", "error", "session.ended"}

ClientGone(u) == clientWs[conns[u].owner] # "OPEN"

\* Every upstream connection has been reported to its client, unless the
\* client is gone: a session.ready, an error or a session.ended for it, and
\* a session.ended from its 'close' callback if it had opened and is closing
\* or closed.  (Messages sent stay sent and a client that left stays away,
\* so what is reported once stays reported.)
AllTold ==
    \A u \in Upstreams :
        /\ ClientGone(u) \/ Signal(u)
        /\ (conns[u].opened /\ conns[u].readyState \in {"CLOSING", "CLOSED"}) =>
              (ClientGone(u) \/ EndedBy(conns[u].owner, u) # {})

\* C19: with the upstream transport delivering its pending events and the
\* client connection staying open, every session.start is followed by a
\* session.ready, an error or a session.ended to that client (at once and
\* as an error without a credential, else for the connection it created),
\* and every closure of an upstream link that had opened is followed by a
\* session.ended from its 'close' callback: whatever connections exist at
\* some time, a later time finds them all reported.
C19_ClientAlwaysTold ==
    /\ [][\A c \in Clients : (~apiKey /\ IsStart(c)) =>
             SentOne(c) /\ Sent(c).type = "error"]_vars
    /\ []<>AllTold

C19_Witness ==
    \E u, v \in Upstreams :
        LET c == conns[u].owner IN
        /\ conns[v].owner = c /\ clientWs[c] = "OPEN"
        /\ FailedToConnect(u) /\ conns[u].readyState = "CLOSED" /\ Signal(u)
        /\ conns[v].opened /\ conns[v].readyState = "CLOSED"
        /\ conns[v].closedBy = "none"
        /\ EndedBy(c, v) # {}

ConnsOf(c) == { u \in Upstreams : conns[u].owner = c }

\* C20: an upstream connection is created only in the step that processes
\* a session.start, one per step, for the client that sent it; so a session
\* has at most as many connections as messages processed (each connection
\* belongs to another one of them), none and no upstream traffic before its
\* first message, and no callback of a failed or closed connection makes a
\* new attempt.
C20_ConnectOnlyOnStart ==
    /\ [](\A c \in Clients :
            /\ Cardinality(ConnsOf(c)) <= nRecv[c]
            /\ \A u \in ConnsOf(c) : conns[u].startReq \in 1..nRecv[c]
            /\ \A u, v \in ConnsOf(c) :
                  conns[u].startReq = conns[v].startReq => u = v)
    /\ [](Len(upstreamSent) = Len(conns))
    /\ [][Len(conns') # Len(conns) =>
            /\ Len(conns') = Len(conns) + 1
            /\ \A u \in Upstreams : conns'[u] = conns[u]
            /\ upstreamSent'[Len(conns')] = << >>
            /\ \E c \in Clients :
                  /\ IsStart(c)
                  /\ conns'[Len(conns')].owner = c
                  /\ conns'[Len(conns')].startReq = nRecv'[c]]_vars

\* The only attempt of a session failed and closed, the client has sent
\* more since, and there is still only that one attempt.
C20_Witness ==
    \E u \in Upstreams :
        LET c == conns[u].owner IN
        /\ ConnsOf(c) = {u}
        /\ FailedToConnect(u) /\ conns[u].readyState = "CLOSED"
        /\ clientWs[c] = "OPEN"
        /\ conns[u].startReq = 2
        /\ nRecv[c] = 3

ErrorWithMessage == [type |-> "error", error |-> [message |-> "rate limited"]]
ErrorWithout == [type |-> "error"]

\* What a step may change of connection u when it only delivers a frame.
SameLink(u) ==
    /\ conns'[u].readyState = conns[u].readyState
    /\ conns'[u].closedBy = conns[u].closedBy
    /\ conns'[u].owner = conns[u].owner
    /\ upstreamSent' = upstreamSent

\* C21: an upstream error event sends the client one error message, with
\* the message of the event or 'Unknown error from AI' when it has none,
\* and changes nothing else: the handle, the configuration and the registry
\* stay as they are, and the link keeps its state (the relay does not close
\* it).
C21_UpstreamErrorForwarded ==
    [][\A u \in Upstreams :
         LET c == conns[u].owner IN
         /\ Handles(u, ErrorWithMessage) =>
               /\ clientWs[c] = "OPEN" =>
                     /\ SentOne(c)
                     /\ Sent(c) = [type |-> "error", message |-> "rate limited"]
               /\ SameLink(u)
               /\ UNCHANGED <<openaiWs, config, sessions, sessionId, clientWs>>
         /\ Handles(u, ErrorWithout) =>
               /\ clientWs[c] = "OPEN" =>
                     /\ SentOne(c)
                     /\ Sent(c) = [type |-> "error",
                                    message |-> "Unknown error from AI"]
               /\ SameLink(u)
               /\ UNCHANGED <<openaiWs, config, sessions, sessionId, clientWs>>]_vars

\* After an upstream error event the link is open and attached, and the
\* client was told.
C21_Witness ==
    \E u \in Upstreams :
        LET c == conns[u].owner
            log == toClient[c] IN
        /\ LastEvent(u) = ErrorWithMessage
        /\ conns[u].readyState = "OPEN" /\ openaiWs[c] = u
        /\ sessionId[c] \in DOMAIN sessions
        /\ log[Len(log)].msg = [type |-> "error", message |-> "rate limited"]
        /\ log[Len(log)].conn = u

\* The step in which the relay gets a frame of client c that is not JSON.
IsMalformed(c) == ClientMessage(c, [wellFormed |-> FALSE])

\* C22: a client frame that fails to parse is answered with exactly one
\* error 'Invalid message format' and has no other effect: configuration,
\* handle, registry, connections and upstream traffic are unchanged, no
\* exception escapes and the client connection stays open for more.
C22_MalformedClientFrame ==
    [][\A c \in Clients : IsMalformed(c) =>
         /\ SentOne(c)
         /\ Sent(c) = [type |-> "error", message |-> "Invalid message format"]
         /\ \A d \in Clients \ {c} : toClient'[d] = toClient[d]
         /\ UNCHANGED <<config, openaiWs, sessions, sessionId, conns,
                         upstreamSent>>
         /\ clientWs'[c] = "OPEN"
         /\ uncaught' = FALSE]_vars

\* The first frame of a client was malformed and answered, its second, a
\* session.start, was processed and its connection opened.
C22_Witness ==
    \E u \in Upstreams :
        LET c == conns[u].owner
            log == toClient[c] IN
        /\ conns[u].startReq = 2 /\ conns[u].readyState = "OPEN"
        /\ Len(log) = 3
        /\ log[2].msg = [type |-> "error", message |-> "Invalid message format"]
        /\ log[2].req = 1
        /\ log[3].msg = [type |-> "session.ready"]

\* The step in which the relay gets an upstream frame that is not JSON.
IsMalformedUpstream(u) == OnMessage(u, [wellFormed |-> FALSE])

\* C23: an upstream frame that fails to parse is dropped in silence:
\* nothing is sent to any client, configuration, handle and registry are
\* unchanged, no exception escapes, and the link keeps its state and its
\* callbacks, so that the frames that follow are still handled.
C23_MalformedUpstreamFrame ==
    [][\A u \in Upstreams : IsMalformedUpstream(u) =>
         /\ toClient' = toClient
         /\ SameLink(u)
         /\ conns'[u].opened
         /\ UNCHANGED <<config, openaiWs, sessions, sessionId, clientWs>>
         /\ uncaught' = FALSE]_vars

\* An unreadable frame was the second on an open link: the client has the
\* translation of the first and nothing more, and the link is attached.
C23_Witness ==
    \E u \in Upstreams :
        LET c == conns[u].owner
            log == toClient[c] IN
        /\ conns[u].nEvents = 2
        /\ conns[u].lastEvent = [wellFormed |-> FALSE]
        /\ conns[u].readyState = "OPEN" /\ openaiWs[c] = u
        /\ clientWs[c] = "OPEN"
        /\ Len(log) = 3
        /\ log[3].msg.type = "audio.output"

\* The step in which the relay processes a session.end of client c.
IsEnd(c) ==
    ClientMessage(c, [wellFormed |-> TRUE, value |-> [type |-> "session.end"]])

InRegistry(c) == sessionId[c] \in DOMAIN sessions

\* A connection attempt of the session of client c failed and is over.
ConnectFailed(c) ==
    \E u \in ConnsOf(c) : FailedToConnect(u) /\ conns[u].readyState = "CLOSED"

AttemptFailed(c) ==
    \E u \in ConnsOf(c) :
        FailedToConnect(u) /\ conns[u].readyState \in {"CLOSING", "CLOSED"}

\* C25: a failed connection attempt leaves the session alive: its handling
\* changes neither the registry nor the client connection nor the
\* configuration, so the session of a connected client stays registered; a
\* session.start after the failure creates and attaches a new connecting
\* upstream socket, and when a connection opens the connected client is
\* sent session.ready.
C25_RetryAfterConnectFailure ==
    /\ [](\A c \in Clients :
            (AttemptFailed(c) /\ clientWs[c] \in {"OPEN", "CLOSING"}) =>
                InRegistry(c))
    /\ [][\A c \in Clients :
            /\ \A u \in ConnsOf(c) :
                  /\ (FailedToConnect(u) /\ (OnError(u) \/ OnClose(u))) =>
                        UNCHANGED <<sessions, clientWs, config>>
                  /\ (OnOpen(u) /\ clientWs[c] = "OPEN") =>
                        SentOne(c) /\ Sent(c) = [type |-> "session.ready"]
            /\ (AttemptFailed(c) /\ IsStart(c)) =>
                  /\ Len(conns') = Len(conns) + 1
                  /\ conns'[Len(conns')].readyState = "CONNECTING"
                  /\ conns'[Len(conns')].owner = c
                  /\ openaiWs'[c] = Len(conns')]_vars

\* The first attempt of a session failed and closed, the second opened and
\* the client, connected and registered all along, has its session.ready.
C25_Witness ==
    \E c \in Clients : \E u, v \in ConnsOf(c) :
        LET log == toClient[c] IN
        /\ u < v
        /\ FailedToConnect(u) /\ conns[u].readyState = "CLOSED"
        /\ conns[v].readyState = "OPEN" /\ openaiWs[c] = v
        /\ clientWs[c] = "OPEN" /\ InRegistry(c)
        /\ log[Len(log)].msg = [type |-> "session.ready"]
        /\ log[Len(log)].conn = v
        /\ \E i \in DOMAIN log :
              /\ log[i].conn = u
              /\ log[i].msg = [type |-> "error",
                                message |-> "Connection to AI failed"]

IsNegotiation(m) == m.type = "session.update"
ReadyFor(u) ==
    Indices(toClient[conns[u].owner],
            LAMBDA e : e.msg.type = "session.ready" /\ e.conn = u)

\* C26: a connection that has opened was sent exactly one session.update,
\* as its first message, built from the configuration of its session, and
\* its client got at most one session.ready for it, exactly one while the
\* client is connected; a session.ready for a connection is never there
\* without the session.update on it, and a connection that has not opened
\* has neither.
C26_OneNegotiationOneReady ==
    \A u \in Upstreams :
        LET c == conns[u].owner IN
        /\ conns[u].opened =>
              /\ Cardinality(Indices(upstreamSent[u], IsNegotiation)) = 1
              /\ IsNegotiation(upstreamSent[u][1])
              /\ Cardinality(ReadyFor(u)) <= 1
              /\ clientWs[c] = "OPEN" => Cardinality(ReadyFor(u)) = 1
        /\ ReadyFor(u) # {} => Indices(upstreamSent[u], IsNegotiation) # {}
        /\ ~conns[u].opened => upstreamSent[u] = << >> /\ ReadyFor(u) = {}

\* One session with two connections, the first failed without opening, the
\* second opened: one session.ready in all, for the second.
C26_Witness ==
    \E c \in Clients : \E u, v \in ConnsOf(c) :
        /\ ~conns[u].opened /\ conns[u].readyState = "CLOSED"
        /\ ReadyFor(u) = {}
        /\ conns[v].opened /\ clientWs[c] = "OPEN"
        /\ Cardinality(ReadyFor(v)) = 1
        /\ Len(upstreamSent[v]) = 1

GreetingsOn(u) == Indices(upstreamSent[u], IsGreeting)

\* C27: a connection is sent at most one response.create, and only after
\* its session.update (and, for a connected client, its session.ready); the
\* timer is armed only by the 'open' callback and only if the configuration
\* of the session has agentSpeaksFirst then; when the timer fires it sends
\* the one response.create if the connection is open, and otherwise sends
\* nothing upstream; in both cases nothing goes to the client and nothing
\* is raised.
C27_GreetingOnceIfOpen ==
    /\ [](\A u \in Upstreams :
            /\ Cardinality(GreetingsOn(u)) <= 1
            /\ GreetingsOn(u) # {} =>
                  /\ conns[u].timer = "done"
                  /\ IsNegotiation(upstreamSent[u][1])
                  /\ clientWs[conns[u].owner] = "OPEN" => ReadyFor(u) # {})
    /\ [][\A u \in Upstreams :
            LET c == conns[u].owner IN
            /\ (conns[u].timer # "armed" /\ conns'[u].timer = "armed") =>
                  /\ OnOpen(u)
                  /\ config[c] \in Configs /\ config[c].agentSpeaksFirst
            /\ GreetingTimer(u) =>
                  /\ conns[u].readyState = "OPEN" =>
                        upstreamSent'[u] =
                            Append(upstreamSent[u], [type |-> "response.create"])
                  /\ conns[u].readyState # "OPEN" => upstreamSent' = upstreamSent
                  /\ toClient' = toClient
                  /\ uncaught' = FALSE]_vars

\* Two connections of one session whose timers have fired: the first was
\* no longer open then and was sent no greeting, the second was and has one.
C27_Witness ==
    \E c \in Clients : \E u, v \in ConnsOf(c) :
        /\ conns[u].opened /\ conns[u].timer = "done" /\ GreetingsOn(u) = {}
        /\ conns[v].readyState = "OPEN" /\ conns[v].timer = "done"
        /\ Cardinality(GreetingsOn(v)) = 1
        /\ ReadyFor(v) # {}

\* The upstream event kinds the relay acknowledges without forwarding, and
\* two kinds it does not know.
AcknowledgedTypes ==
    { "session.created", "session.updated",
      "input_audio_buffer.speech_started", "input_audio_buffer.speech_stopped",
      "input_audio_buffer.committed", "conversation.item.created",
      "response.created", "response.output_item.added",
      "response.output_item.done", "response.content_part.added",
      "response.content_part.done", "rate_limits.updated" }
UnknownTypes == { "response.text.delta", "response.audio.done" }

\* C28: an upstream acknowledgement event and an upstream event of a kind
\* the relay does not know send nothing to any client and change neither
\* the configuration, the handle, the registry nor the link.
C28_AcksAndUnknownDropped ==
    [][\A u \in Upstreams : \A t \in AcknowledgedTypes \cup UnknownTypes :
         Handles(u, [type |-> t]) =>
            /\ toClient' = toClient
            /\ SameLink(u)
            /\ UNCHANGED <<config, openaiWs, sessions, sessionId, clientWs>>
            /\ uncaught' = FALSE]_vars

\* An event of an unknown kind came second on an open link, after an
\* acknowledgement or another frame that sends nothing: the client has its
\* session.created and session.ready only.
C28_Witness ==
    \E u \in Upstreams :
        LET c == conns[u].owner IN
        /\ conns[u].nEvents = 2
        /\ LastEvent(u) = [type |-> "response.text.delta"]
        /\ conns[u].readyState = "OPEN" /\ openaiWs[c] = u
        /\ clientWs[c] = "OPEN"
        /\ Len(toClient[c]) = 2

IsPrefix(s, t) == Len(s) <= Len(t) /\ SubSeq(t, 1, Len(s)) = s
IsAppend(m) == m.type = "input_audio_buffer.append"

\* C29: the relay does not reorder.  What was sent to a client or on an
\* upstream connection stays as it is and every step adds at most one
\* message to a client, at the end; the step that handles an upstream event
\* adds its translation as the last message of the client, and the step
\* that forwards an audio.input adds its input_audio_buffer.append as the
\* last instruction of the connection, so that the appends of a connection
\* are in the order of the requests they come from.
C29_NoReordering ==
    [][/\ \A u \in DOMAIN upstreamSent' :
             \A i, j \in Indices(upstreamSent'[u], IsAppend) :
                i < j => upstreamSent'[u][i].req < upstreamSent'[u][j].req
       /\ \A c \in Clients :
            /\ IsPrefix(toClient[c], toClient'[c])
            /\ Len(toClient'[c]) <= Len(toClient[c]) + 1
            /\ (upstreamSent' # upstreamSent /\ IsAudio(c)) =>
                  LET sent == upstreamSent'[openaiWs[c]] IN
                  /\ IsAppend(sent[Len(sent)])
                  /\ sent[Len(sent)].req = nRecv'[c]
       /\ \A u \in Upstreams :
           /\ IsPrefix(upstreamSent[u], upstreamSent'[u])
           /\ \A e \in UpstreamEvents :
                 (conns'[u].nEvents # conns[u].nEvents
                    /\ clientWs[conns[u].owner] = "OPEN"
                    /\ handleOpenAIEvent(e) # << >>
                    /\ Handles(u, e)) =>
                     toClient'[conns[u].owner] =
                        Append(toClient[conns[u].owner],
                               Entry(handleOpenAIEvent(e)[1],
                                     "upstream.message", u, 0))]_vars

\* Two upstream events came on one link, audio first and an error second,
\* and the client has their translations in that order.
C29_Witness ==
    \E u \in Upstreams :
        LET log == toClient[conns[u].owner] IN
        /\ conns[u].nEvents = 2
        /\ LastEvent(u) = ErrorWithMessage
        /\ Len(log) = 4
        /\ log[3].msg.type = "audio.output" /\ log[3].conn = u
        /\ log[4].msg = [type |-> "error", message |-> "rate limited"]
        /\ log[4].conn = u

Accepted == { c \in Clients : clientWs[c] # "NONE" }

\* The entry of client d is in the registry before and after the step.
EntryKept(d) ==
    /\ sessionId[d] \in DOMAIN sessions'
    /\ sessions'[sessionId[d]] = sessions[sessionId[d]]

\* C30 as stated: no two accepted connections have the same identifier.
C30_IdentifiersUnique ==
    \A c, d \in Accepted : c # d => sessionId[c] # sessionId[d]

\* C30 as amended: the draw does not exclude an identifier already issued;
\* registering a session puts it under its identifier and closing a client
\* removes the entry under its identifier, and both leave the entries of
\* sessions with another identifier as they are.
C30_OtherIdentifiersUntouched ==
    [][\A c \in Clients :
         /\ (clientWs[c] = "NONE" /\ clientWs'[c] = "OPEN") =>
               /\ sessionId'[c] \in DOMAIN sessions'
               /\ sessions'[sessionId'[c]] = c
               /\ \A d \in Accepted :
                     (sessionId[d] # sessionId'[c] /\ InRegistry(d)) =>
                         EntryKept(d)
         /\ (clientWs[c] \in {"OPEN", "CLOSING"} /\ clientWs'[c] = "CLOSED") =>
               /\ sessionId[c] \notin DOMAIN sessions'
               /\ \A d \in Accepted :
                     (sessionId[d] # sessionId[c] /\ InRegistry(d)) =>
                         EntryKept(d)]_vars

\* Two connections drew different identifiers; one has closed and the
\* other, registered before it, still has its entry.
C30_Witness ==
    \E c, d \in Clients :
        /\ c < d
        /\ sessionId[c] = 2 /\ sessionId[d] = 1
        /\ clientWs[d] = "CLOSED"
        /\ clientWs[c] = "OPEN"
        /\ InRegistry(c) /\ sessions[sessionId[c]] = c
        /\ nRecv[c] > 0

\* The step is the open callback of connection u.
Opens(u) == conns[u].readyState = "CONNECTING" /\ conns'[u].readyState = "OPEN"
\* The instruction sent last on connection u in the step.
LastSent(u) == upstreamSent'[u][Len(upstreamSent'[u])]

\* A configuration with the fields of the external interface.
InterfaceConfig(cfg) == {"voice", "instructions"} \subseteq DOMAIN cfg

\* C31: when a connection opens for a session whose configuration has the
\* fields of the external interface, the negotiation message sent declares
\* the instructions and the voice of that configuration, the generic
\* instructions when that text is empty and the voice alloy when the voice is
\* unset.
C31_NegotiationDeclaresConfig ==
    [][\A u \in Upstreams :
         (Opens(u) /\ InterfaceConfig(config[conns[u].owner])) =>
            LET cfg == config[conns[u].owner] IN
            /\ Len(upstreamSent'[u]) = Len(upstreamSent[u]) + 1
            /\ LastSent(u).type = "session.update"
            /\ LastSent(u).instructions =
                  (IF Str(cfg, "instructions") # "" THEN cfg.instructions
                   ELSE "You are a helpful assistant.")
            /\ LastSent(u).voice =
                  (IF Str(cfg, "voice") # "" THEN cfg.voice ELSE "alloy")]_vars

\* The turn-detection parameters of a negotiation message left out.
WithoutTurnDetection(m) ==
    IF m.type = "session.update"
    THEN [type |-> m.type, instructions |-> m.instructions, voice |-> m.voice]
    ELSE m

\* C32: the standalone server does what the relay does, turn-detection
\* parameters apart.  From a state both have reached, a client frame and an
\* upstream frame handled by the relay lead to the state the standalone
\* server gets to, and the open callbacks of the two send the same message
\* to the client and, the turn-detection parameters left out, the same
\* negotiation upstream.
C32_ParallelImplementations ==
    [][/\ \A c \in Clients : \A data \in ClientData :
             (nRecv'[c] # nRecv[c] /\ ClientMessage(c, data)) =>
                 JsClientMessage(c, data)
       /\ \A u \in Upstreams : \A data \in AllUpstreamData :
             (conns'[u].nEvents # conns[u].nEvents /\ OnMessage(u, data)) =>
                 JsOnMessage(u, data)
       /\ \A u \in Upstreams :
             Opens(u) =>
                 /\ WithoutTurnDetection(LastSent(u)) =
                       WithoutTurnDetection(
                           JsSessionUpdate(config[conns[u].owner]))
                 /\ toClient' = [toClient EXCEPT ![conns[u].owner] =
                        sendToClient(clientWs[conns[u].owner], @,
                            Entry([type |-> "session.ready"], "upstream.open",
                                  u, conns[u].startReq))]]_vars

\* The step is the close callback of connection u.
Closes(u) == conns[u].readyState # "CLOSED" /\ conns'[u].readyState = "CLOSED"

\* C33: the close callback of a connection that is no longer the attached
\* one leaves the handle of its session as it is.
C33_StaleCloseKeepsHandle ==
    [][\A u \in Upstreams :
         (Closes(u) /\ openaiWs[conns[u].owner] # u) =>
             openaiWs'[conns[u].owner] = openaiWs[conns[u].owner]]_vars

\* C34: once the client transport of a session has closed, nothing more is
\* sent on any upstream connection of that session.
C34_NothingUpstreamAfterClientClose ==
    [][\A u \in Upstreams :
         clientWs[conns[u].owner] = "CLOSED" =>
             upstreamSent'[u] = upstreamSent[u]]_vars

\* C35: the negotiation message of a connection and the decision to
\* schedule its greeting are those of the configuration the session had when
\* the session.start that created the connection was processed.
C35_ConfigOfCreatingStart ==
    [][\A u \in Upstreams :
         Opens(u) =>
            LET cfg == conns[u].requested IN
            /\ LastSent(u).instructions = sessionUpdate(cfg).instructions
            /\ LastSent(u).voice = sessionUpdate(cfg).voice
            /\ (conns'[u].timer = "armed") <=> cfg.agentSpeaksFirst]_vars

IsCreated(e) == e.msg.type = "session.created"

\* C36: every accepted client has exactly one session.created; it is the
\* first message sent to that client and carries the identifier of the
\* session, under which the session is registered while the client is
\* connected.
C36_CreatedOnceAndFirst ==
    \A c \in Accepted :
        /\ Len(toClient[c]) >= 1
        /\ toClient[c][1].msg =
              [type |-> "session.created", sessionId |-> sessionId[c]]
        /\ Indices(toClient[c], IsCreated) = {1}
        /\ clientWs[c] # "CLOSED" =>
              /\ sessionId[c] \in DOMAIN sessions
              /\ sessions[sessionId[c]] = c

\* The second client to connect has its session.created first, followed by
\* the session.ready of its connection and a message that came from it.
C36_Witness ==
    /\ clientWs[2] = "OPEN"
    /\ sessionId[2] = 2 /\ sessions[2] = 2
    /\ Len(toClient[2]) = 3
    /\ toClient[2][1].msg = [type |-> "session.created", sessionId |-> 2]
    /\ toClient[2][2].msg.type = "session.ready"
    /\ toClient[2][3].by = "upstream.message"

\* C37: on every upstream connection an input_audio_buffer.append or a
\* response.create comes after the session.update of the connection.
C37_NegotiationFirst ==
    \A u \in Upstreams : \A i \in DOMAIN upstreamSent[u] :
        upstreamSent[u][i].type \in {"input_audio_buffer.append", "response.create"}
            => \E j \in 1..(i - 1) : upstreamSent[u][j].type = "session.update"

\* A connection on which the negotiation, then audio of the client (its
\* third frame) and then the greeting were sent.
C37_Witness ==
    \E u \in Upstreams :
        /\ Len(upstreamSent[u]) = 3
        /\ upstreamSent[u][1].type = "session.update"
        /\ upstreamSent[u][2].type = "input_audio_buffer.append"
        /\ upstreamSent[u][2].req = 3
        /\ upstreamSent[u][3].type = "response.create"

\* At most one instruction was added, on one upstream connection.
AtMostOneInstruction ==
    \/ upstreamSent' = upstreamSent
    \/ \E u \in Upstreams :
          /\ Len(upstreamSent'[u]) = Len(upstreamSent[u]) + 1
          /\ \A v \in Upstreams \ {u} : upstreamSent'[v] = upstreamSent[v]

\* C38: the step that handles a frame of an upstream connection adds at
\* most one message, to the client of that connection, and sends nothing
\* upstream; the step that handles an audio.input adds at most one
\* instruction upstream and sends nothing to a client; both leave the
\* configurations, the upstream handles and the registry as they are.
C38_TranslationStateless ==
    [][/\ \A u \in Upstreams :
             conns'[u].nEvents # conns[u].nEvents =>
                 /\ Len(toClient'[conns[u].owner]) \in
                       { Len(toClient[conns[u].owner]),
                         Len(toClient[conns[u].owner]) + 1 }
                 /\ \A d \in Clients \ {conns[u].owner} :
                       toClient'[d] = toClient[d]
                 /\ UNCHANGED <<upstreamSent, config, openaiWs, sessions>>
       /\ \A c \in Clients :
             (nRecv'[c] # nRecv[c] /\ IsAudio(c)) =>
                 /\ AtMostOneInstruction
                 /\ UNCHANGED <<toClient, config, openaiWs, sessions>>]_vars

\* A session whose link delivered one event, translated into one message,
\* and whose client had one audio.input forwarded; the session is still
\* registered, configured and attached to the link.
C38_Witness ==
    \E u \in Upstreams :
        LET c == conns[u].owner IN
        /\ conns[u].nEvents = 1
        /\ Cardinality(Indices(toClient[c],
                               LAMBDA e : e.by = "upstream.message")) = 1
        /\ Cardinality(Indices(upstreamSent[u], IsAppend)) = 1
        /\ openaiWs[c] = u
        /\ config[c] \in Configs
        /\ InRegistry(c)

\* C39: a message is added for a client only by a step that finds or makes
\* its transport open and leaves it open; while the transport is closing or
\* closed the messages of the client stay as they are, and no step ends with
\* an exception.
C39_SendsOnlyWhenOpen ==
    [][/\ \A c \in Clients :
             /\ toClient'[c] # toClient[c] =>
                   clientWs[c] \in {"NONE", "OPEN"} /\ clientWs'[c] = "OPEN"
             /\ clientWs[c] \in {"CLOSING", "CLOSED"} =>
                   toClient'[c] = toClient[c]
       /\ ~uncaught']_vars

\* The client has disconnected; its link delivered an audio frame when the
\* client transport was no longer open and then its close event after the
\* client close, and neither added a message.
C39_Witness ==
    \E u \in Upstreams :
        LET c == conns[u].owner IN
        /\ clientWs[c] = "CLOSED"
        /\ conns[u].readyState = "CLOSED"
        /\ conns[u].closedBy = "client.close"
        /\ conns[u].nEvents = 1
        /\ LastEvent(u).type = "response.audio.delta"
        /\ \A i \in DOMAIN toClient[c] :
              toClient[c][i].by \notin {"upstream.message", "upstream.close"}
        /\ ~uncaught
====
